---- MODULE Spec2Model ----
(***************************************************************************)
(* rslife: mortality table construction, survival probabilities,           *)
(* commutation functions and the present-value summation kernels.          *)
(*                                                                         *)
(* f64 values are modelled as exact fractions <<n, d>> with d > 0,         *)
(* extended with the IEEE specials the code can produce by dividing by     *)
(* zero: <<1, 0>> = +inf, <<-1, 0>> = -inf, <<0, 0>> = NaN.  A null cell   *)
(* of a polars column is <<0, -1>>.  Rounding error is not modelled: an    *)
(* equality of the model is an equality of the real-number formulas the    *)
(* code evaluates.                                                         *)
(***************************************************************************)
EXTENDS Integers, Sequences, FiniteSets, TLC

\* ------------------------------------------------------------------------
\* f64 arithmetic
\* ------------------------------------------------------------------------

Abs(a) == IF a < 0 THEN -a ELSE a

Sign(a) == IF a < 0 THEN -1 ELSE IF a > 0 THEN 1 ELSE 0

RECURSIVE Gcd(_, _)
Gcd(a, b) == IF b = 0 THEN a ELSE Gcd(b, a % b)

NaN == <<0, 0>>

PosInf == <<1, 0>>

NegInf == <<-1, 0>>

Null == <<0, -1>>

IsNull(a) == a[2] < 0

IsNaN(a) == a = NaN

IsFinite(a) == a[2] > 0

\* Reduce n/d (d >= 0) to lowest terms; n/0 is an infinity or NaN.
FNorm(n, d) ==
    IF d = 0 THEN <<Sign(n), 0>>
    ELSE LET g == Gcd(Abs(n), d) IN <<n \div g, d \div g>>

F(n) == <<n, 1>>

Frac(n, d) == FNorm(n, d)

Zero == F(0)

One == F(1)

FNeg(a) == <<-a[1], a[2]>>

FAdd(a, b) ==
    IF a[2] = 0 /\ b[2] = 0
    THEN (IF a = b /\ ~IsNaN(a) THEN a ELSE NaN)
    ELSE IF a[2] = 0 THEN a
    ELSE IF b[2] = 0 THEN b
    ELSE LET g == Gcd(a[2], b[2])
         IN  FNorm(a[1] * (b[2] \div g) + b[1] * (a[2] \div g),
                   (a[2] \div g) * b[2])

FSub(a, b) == FAdd(a, FNeg(b))

\* Products are reduced crosswise before multiplying.
FMulRaw(an, ad, bn, bd) ==
    IF ad = 0 \/ bd = 0 THEN <<Sign(an) * Sign(bn), 0>>
    ELSE LET g1 == Gcd(Abs(an), bd)
             g2 == Gcd(Abs(bn), ad)
         IN  FNorm((an \div g1) * (bn \div g2), (ad \div g2) * (bd \div g1))

FMul(a, b) == FMulRaw(a[1], a[2], b[1], b[2])

\* IEEE division: x/0 is an infinity (NaN for 0/0), never a trap.  The sign
\* of a zero divisor is taken as positive.
FDiv(a, b) ==
    LET s == IF b[1] < 0 THEN -1 ELSE 1
    IN  FMulRaw(a[1], a[2], s * b[2], Abs(b[1]))

\* IEEE comparisons: every comparison with NaN is false.
FLt(a, b) ==
    /\ ~IsNaN(a) /\ ~IsNaN(b)
    /\ IF a[2] = 0 \/ b[2] = 0
       THEN (IF a[2] = 0 /\ b[2] = 0 THEN a[1] < b[1]
             ELSE IF a[2] = 0 THEN a[1] < 0 ELSE b[1] > 0)
       ELSE LET g == Gcd(a[2], b[2])
            IN  a[1] * (b[2] \div g) < b[1] * (a[2] \div g)

FEq(a, b) == ~IsNaN(a) /\ ~IsNaN(b) /\ a = b

FLe(a, b) == FLt(a, b) \/ FEq(a, b)

FGt(a, b) == FLt(b, a)

FGe(a, b) == FLe(b, a)

\* f64::floor and f64::fract (fract = x - trunc(x)) on finite values.
FFloorInt(a) == a[1] \div a[2]

FTruncInt(a) == IF a[1] >= 0 THEN a[1] \div a[2] ELSE -((-a[1]) \div a[2])

FFloor(a) == IF IsFinite(a) THEN F(FFloorInt(a)) ELSE a

FFract(a) == IF IsFinite(a) THEN FSub(a, F(FTruncInt(a))) ELSE NaN

\* `as u32`: truncates toward zero and saturates (negative and NaN give 0;
\* the saturated maximum is held as 2^31 - 1).
AsU32(a) ==
    IF ~IsFinite(a) THEN (IF a = PosInf THEN 2147483647 ELSE 0)
    ELSE IF a[1] < 0 THEN 0 ELSE a[1] \div a[2]

RECURSIVE IntPow(_, _)
IntPow(b, e) == IF e = 0 THEN 1 ELSE b * IntPow(b, e - 1)

\* The exact q-th root of a natural number (the model's inputs are chosen so
\* that every root the code takes is exact).
IntRoot(n, q) == CHOOSE r \in 0..n : IntPow(r, q) = n

\* f64::powf(a, e) for an exponent p/q.
FPow(a, e) ==
    IF e = Zero THEN One
    ELSE IF IsNaN(a) \/ IsNaN(e) THEN NaN
    ELSE IF a = One THEN One
    ELSE LET p == Abs(e[1])
             q == e[2]
             pos == \* a^(p/q)
                 IF a[2] = 0
                 THEN (IF a[1] > 0 THEN PosInf
                       ELSE IF q = 1 /\ p % 2 = 1 THEN NegInf
                       ELSE IF q = 1 THEN PosInf ELSE PosInf)
                 ELSE IF a[1] < 0 /\ q > 1 THEN NaN
                 ELSE IF q = 1
                      THEN FNorm(IntPow(a[1], p), IntPow(a[2], p))
                      ELSE FNorm(IntPow(IntRoot(a[1], q), p),
                                 IntPow(IntRoot(a[2], q), p))
         IN  IF IsNaN(pos) THEN NaN
             ELSE IF e[1] > 0 THEN pos ELSE FDiv(One, pos)

\* ------------------------------------------------------------------------
\* DataFrames, MortData and MortTableConfig
\* ------------------------------------------------------------------------
\* A DataFrame is [dur, minAge, n, minDur, maxDur, qx, lx]: n rows of
\* consecutive ages from minAge.  A 1-D frame (dur = FALSE) holds each column
\* as a sequence of f64; a 2-D frame holds, per age, one cell per duration
\* (the pivoted form; the long form has one row per age and duration, a
\* missing or null row being a Null cell).  A column the frame lacks is <<>>.

MaxLen == 3

MaxDurs == 2

NoCol == <<>>

Ages(df) == df.minAge .. (df.minAge + df.n - 1)

Durs(df) == df.minDur .. df.maxDur

HasCol(df, c) == IF c = "qx" THEN df.qx # NoCol ELSE df.lx # NoCol

Col(df, c) == IF c = "qx" THEN df.qx ELSE df.lx

Frame1D(minAge, qx, lx) ==
    [dur |-> FALSE, minAge |-> minAge,
     n |-> IF qx # NoCol THEN Len(qx) ELSE Len(lx),
     minDur |-> 0, maxDur |-> 0, qx |-> qx, lx |-> lx]

Frame2D(minAge, n, minDur, maxDur, qx, lx) ==
    [dur |-> TRUE, minAge |-> minAge, n |-> n,
     minDur |-> minDur, maxDur |-> maxDur, qx |-> qx, lx |-> lx]

UDD == "UDD"

CFM == "CFM"

HPB == "HPB"

AssumptionEnum == {UDD, CFM, HPB}

\* Results: Ok(v), Err(set of violated fields) and a panic (an unwrap of
\* None or an arithmetic overflow trap, which aborts the caller).
Ok(v) == [k |-> "ok", v |-> v, e |-> {}]

Err(es) == [k |-> "err", v |-> NaN, e |-> es]

Panic == [k |-> "panic", v |-> NaN, e |-> {}]

IsOk(r) == r.k = "ok"

IsErr(r) == r.k = "err"

IsPanic(r) == r.k = "panic"

\* r.unwrap_or(d)
UnwrapOr(r, d) == IF IsOk(r) THEN r.v ELSE d

\* `let v = r?; Then(v)`: a failure of r (an Err, or a panic unwinding) is
\* what the caller returns
Try(r, Then(_)) == IF IsOk(r) THEN Then(r.v) ELSE r

\* `if validate { params.validate_all()? }` followed by the rest of the body
Validated(bad, rest) == IF bad # {} THEN Err(bad) ELSE rest

\* MortTableConfig::min_age / max_age / min_duration / max_duration
min_age(mt) == mt.data.minAge

max_age(mt) == mt.data.minAge + mt.data.n - 1

min_duration(mt) == mt.data.minDur

max_duration(mt) == mt.data.maxDur

\* garde: radix >= 1 and validate_pct (pct > 0)
validate_pct(pct) == FGt(pct, Zero)

ValidateConfig(mt) ==
    (IF mt.radix >= 1 THEN {} ELSE {"radix"}) \cup
    (IF validate_pct(mt.pct) THEN {} ELSE {"pct"})

\* ------------------------------------------------------------------------
\* mt_config.rs: deriving the missing column
\* ------------------------------------------------------------------------

\* A slip in the denominator: qx[i] = (lx[i] - lx[i+1]) / lx[i+1]
get_qx_from_lx_1D_NextDenominator(df) ==
    LET lx_vec == df.lx
        qx_vec == [i \in 1..Len(lx_vec) |->
                     IF i < Len(lx_vec)
                     THEN FDiv(FSub(lx_vec[i], lx_vec[i + 1]), lx_vec[i + 1])
                     ELSE One]
    IN  Frame1D(df.minAge, qx_vec, lx_vec)

\* qx[i] = (lx[i] - lx[i+1]) / lx[i]; the last age gets qx = 1.0
get_qx_from_lx_1D(df) ==
    LET lx_vec == df.lx
        qx_vec == [i \in 1..Len(lx_vec) |->
                     IF i < Len(lx_vec)
                     THEN FDiv(FSub(lx_vec[i], lx_vec[i + 1]), lx_vec[i])
                     ELSE One]
    IN  Frame1D(df.minAge, qx_vec, lx_vec)

RECURSIVE LxFrom(_, _, _)
\* lx_vec[i] of get_lx_from_qx_1D: lx[1] = radix, lx[i] = lx[i-1] * (1 - qx[i-1])
LxFrom(qx_vec, radix, i) ==
    IF i = 1 THEN F(radix)
    ELSE FMul(LxFrom(qx_vec, radix, i - 1), FSub(One, qx_vec[i - 1]))

\* A slip in the index: lx[i] = lx[i-1] * (1 - qx[i])
get_lx_from_qx_1D_ShiftedRate(df, radix) ==
    LET qx_vec == df.qx
        lx_vec == [i \in 1..Len(qx_vec) |->
                     LxFrom([j \in 1..Len(qx_vec) |->
                                IF j < Len(qx_vec) THEN qx_vec[j + 1] ELSE qx_vec[j]],
                            radix, i)]
    IN  Frame1D(df.minAge, qx_vec, lx_vec)

get_lx_from_qx_1D(df, radix) ==
    LET qx_vec == df.qx
        lx_vec == [i \in 1..Len(qx_vec) |-> LxFrom(qx_vec, radix, i)]
    IN  Frame1D(df.minAge, qx_vec, lx_vec)

\* A raw 2-D frame is long: [dur |-> TRUE, value_column, rows], rows being
\* triples <<age, duration, value>>.
RowAges(df) == {r[1] : r \in df.rows}

RowDurs(df) == {r[2] : r \in df.rows}

SetMin(S) == CHOOSE a \in S : \A b \in S : a <= b

SetMax(S) == CHOOSE a \in S : \A b \in S : a >= b

\* One column per duration, one row per age, sorted by age; a cell with no
\* row is null.
pivot_2D_data(df) ==
    LET lo == SetMin(RowAges(df))
        hi == SetMax(RowAges(df))
    IN  [minAge |-> lo, n |-> hi - lo + 1,
         cells |-> [i \in 1..(hi - lo + 1) |->
                      [d \in RowDurs(df) |->
                         LET rs == {r \in df.rows : r[1] = lo + i - 1 /\ r[2] = d}
                         IN  IF rs = {} THEN Null ELSE (CHOOSE r \in rs : TRUE)[3]]]]

\* qx_d[i] = 1 - lx_min(d+1,max_dur)[i+1] / lx_d[i] where both cells are
\* populated; the last row is left null.
get_all_qx_columns_2D(lx, n, min_dur, max_dur) ==
    [i \in 1..n |->
       [d \in min_dur..max_dur |->
          LET dn == IF d + 1 < max_dur THEN d + 1 ELSE max_dur
          IN  IF i < n /\ ~IsNull(lx[i + 1][dn]) /\ ~IsNull(lx[i][d])
              THEN FSub(One, FDiv(lx[i + 1][dn], lx[i][d]))
              ELSE Null]]

RECURSIVE LxUltimate(_, _, _, _)
\* lx_values[i] of _get_lx_ultimate_2D: prev_lx starts at radix and is
\* multiplied by (1 - qx) after every row whose ultimate qx is populated.
LxUltimate(qx, max_dur, radix, i) ==
    IF i = 1 THEN F(radix)
    ELSE LET prev == LxUltimate(qx, max_dur, radix, i - 1)
         IN  IF IsNull(qx[i - 1][max_dur]) THEN prev
             ELSE FMul(prev, FSub(One, qx[i - 1][max_dur]))

get_lx_ultimate_2D(qx, n, max_dur, radix) ==
    [i \in 1..n |-> LxUltimate(qx, max_dur, radix, i)]

RECURSIVE LxCell2D(_, _, _, _, _, _)
\* _get_all_lx_columns_2D, from max_dur - 1 down to min_dur:
\* lx_d[i] = lx_(d+1)[i+1] / (1 - qx_d[i]) where both are populated
LxCell2D(qx, n, max_dur, radix, i, d) ==
    IF d = max_dur THEN LxUltimate(qx, max_dur, radix, i)
    ELSE IF i = n THEN Null
    ELSE LET lx_next == LxCell2D(qx, n, max_dur, radix, i + 1, d + 1)
         IN  IF IsNull(lx_next) \/ IsNull(qx[i][d]) THEN Null
             ELSE FDiv(lx_next, FSub(One, qx[i][d]))

get_all_lx_columns_2D(qx, n, min_dur, max_dur, radix) ==
    [i \in 1..n |-> [d \in min_dur..max_dur |->
                        LxCell2D(qx, n, max_dur, radix, i, d)]]

get_qx_from_lx_2D(df, min_dur, max_dur) ==
    LET p == pivot_2D_data(df)
    IN  Frame2D(p.minAge, p.n, min_dur, max_dur,
                get_all_qx_columns_2D(p.cells, p.n, min_dur, max_dur), p.cells)

get_lx_from_qx_2D(df, min_dur, max_dur, radix) ==
    LET p == pivot_2D_data(df)
    IN  Frame2D(p.minAge, p.n, min_dur, max_dur, p.cells,
                get_all_lx_columns_2D(p.cells, p.n, min_dur, max_dur, radix))

\* MortTableConfig::get_qx_lx_data_config
get_qx_lx_data_config(mt) ==
    LET df == mt.data
        is_2d == df.dur
        has_lx == IF is_2d THEN df.value_column = "lx" ELSE HasCol(df, "lx")
        has_qx == IF is_2d THEN df.value_column = "qx" ELSE HasCol(df, "qx")
        min_dur == IF is_2d THEN SetMin(RowDurs(df)) ELSE 0
        max_dur == IF is_2d THEN SetMax(RowDurs(df)) ELSE 0
    IN  IF ~is_2d /\ has_lx /\ ~has_qx THEN Ok(get_qx_from_lx_1D(df))
        ELSE IF ~is_2d /\ ~has_lx /\ has_qx THEN Ok(get_lx_from_qx_1D(df, mt.radix))
        ELSE IF is_2d /\ has_lx /\ ~has_qx THEN Ok(get_qx_from_lx_2D(df, min_dur, max_dur))
        ELSE IF is_2d /\ ~has_lx /\ has_qx
             THEN Ok(get_lx_from_qx_2D(df, min_dur, max_dur, mt.radix))
        ELSE IF has_lx /\ has_qx THEN Ok(df)
        ELSE Err({"format"})

\* MortTableConfig::new: Ok(config) or Err
MortTableConfigNew(data, radix, pct, assumption) ==
    LET config == [data |-> data, radix |-> radix, pct |-> pct,
                   assumption |-> assumption]
    IN  Validated(ValidateConfig(config),
                  Try(get_qx_lx_data_config(config),
                      LAMBDA df : Ok([config EXCEPT !.data = df])))

\* ------------------------------------------------------------------------
\* params.rs: parameter validation
\* ------------------------------------------------------------------------
\* entry_age: Option<u32>; None is NoEntry.

NoEntry == -1

RangeMax == 150

\* if x < min_age || x > max_age
validate_age_boundaries(x, lo, hi) ==
    IF FLt(x, F(lo)) \/ FGt(x, F(hi)) THEN {"x.bounds"} ELSE {}

validate_entry_age(entry_age, x, lo) ==
    IF entry_age = NoEntry THEN {}
    ELSE (IF FGt(F(entry_age), x) THEN {"entry_age.gt_x"} ELSE {}) \cup
         (IF FLt(F(entry_age), F(lo)) THEN {"entry_age.lt_min"} ELSE {})

GardeEntry(entry_age) ==
    IF entry_age # NoEntry /\ entry_age > RangeMax THEN {"entry_age.range"} ELSE {}

\* validate_all: the garde attribute checks first; only when they all pass,
\* the cross-field checks against the table.
SurvivalFunctionParams_validate_all(mt, x, t, k, entry_age) ==
    LET garde == ValidateConfig(mt) \cup
                 (IF FGt(x, F(RangeMax)) THEN {"x.range"} ELSE {}) \cup
                 (IF FGt(t, F(RangeMax)) THEN {"t.range"} ELSE {}) \cup
                 (IF FGt(k, F(RangeMax)) THEN {"k.range"} ELSE {}) \cup
                 GardeEntry(entry_age)
        custom == validate_age_boundaries(x, min_age(mt), max_age(mt)) \cup
                  (IF FGt(FAdd(FAdd(x, t), k), F(max_age(mt)))
                   THEN {"term"} ELSE {}) \cup
                  validate_entry_age(entry_age, x, min_age(mt))
    IN  IF garde # {} THEN garde ELSE custom

SingleLifeParams_validate_all(mt, x, n, t, m, moment, entry_age) ==
    LET garde == ValidateConfig(mt) \cup
                 (IF x > RangeMax THEN {"x.range"} ELSE {}) \cup
                 (IF n > RangeMax THEN {"n.range"} ELSE {}) \cup
                 (IF t > RangeMax THEN {"t.range"} ELSE {}) \cup
                 (IF m < 1 THEN {"m.range"} ELSE {}) \cup
                 (IF moment < 1 THEN {"moment.range"} ELSE {}) \cup
                 GardeEntry(entry_age)
        custom == validate_age_boundaries(F(x), min_age(mt), max_age(mt)) \cup
                  (IF x + t + n > max_age(mt) THEN {"term"} ELSE {}) \cup
                  validate_entry_age(entry_age, F(x), min_age(mt))
    IN  IF garde # {} THEN garde ELSE custom

GetValueFunctionValidation_validate_all(mt, x, entry_age) ==
    LET garde == ValidateConfig(mt) \cup
                 (IF x > RangeMax THEN {"x.range"} ELSE {}) \cup
                 GardeEntry(entry_age)
        custom == validate_age_boundaries(F(x), min_age(mt), max_age(mt)) \cup
                  validate_entry_age(entry_age, F(x), min_age(mt))
    IN  IF garde # {} THEN garde ELSE custom

\* ------------------------------------------------------------------------
\* helpers.rs: the table a query runs on
\* ------------------------------------------------------------------------

\* rows with duration = max_duration, columns (age, qx, lx)
get_ultimate_mortality_table(mt) ==
    LET df == mt.data
    IN  Frame1D(df.minAge,
                [i \in 1..df.n |-> df.qx[i][df.maxDur]],
                [i \in 1..df.n |-> df.lx[i][df.maxDur]])

\* The cell (age, min(age - entry_age, max_dur)) for every age >= entry_age;
\* an absent or null cell panics (.get(0).unwrap()).
SelectedDuration_AlwaysUltimate(df, age, entry_age) ==
    df.maxDur

SelectedDuration(df, age, entry_age) ==
    IF age - entry_age < df.maxDur THEN age - entry_age ELSE df.maxDur

SelectedCellMissing(df, age, entry_age) ==
    LET d == SelectedDuration(df, age, entry_age)
        i == age - df.minAge + 1
    IN  \/ d \notin Durs(df)
        \/ IsNull(df.qx[i][d])
        \/ IsNull(df.lx[i][d])

get_selected_mortality_table(mt, entry_age) ==
    LET df == mt.data
        cell(c, i) ==
            LET age == df.minAge + i - 1
            IN  IF age < entry_age THEN Zero
                ELSE Col(df, c)[i][SelectedDuration(df, age, entry_age)]
    IN  IF \E age \in Ages(df) :
              age >= entry_age /\ SelectedCellMissing(df, age, entry_age)
        THEN Panic
        ELSE Ok(Frame1D(df.minAge,
                        [i \in 1..df.n |-> cell("qx", i)],
                        [i \in 1..df.n |-> cell("lx", i)]))

get_new_config_with_selected_table(mt, entry_age) ==
    IF ~mt.data.dur THEN Ok(mt)
    ELSE IF entry_age # NoEntry
         THEN Try(get_selected_mortality_table(mt, entry_age),
                  LAMBDA df : Ok([mt EXCEPT !.data = df]))
         ELSE Ok([mt EXCEPT !.data = get_ultimate_mortality_table(mt)])

\* ------------------------------------------------------------------------
\* mt_config.rs: lx, qx, dx
\* ------------------------------------------------------------------------

get_value(mt, column_name, x, entry_age, validate) ==
    Validated(
        IF validate THEN GetValueFunctionValidation_validate_all(mt, x, entry_age)
        ELSE {},
        Try(get_new_config_with_selected_table(mt, entry_age),
            LAMBDA new_mt :
                LET df == new_mt.data
                    i == x - df.minAge + 1
                IN  IF x \notin Ages(df) \/ ~HasCol(df, column_name)
                    THEN Err({"no_value"})
                    ELSE IF IsNull(Col(df, column_name)[i]) THEN Err({"no_value"})
                    ELSE Ok(Col(df, column_name)[i])))

lx(mt, x, entry_age, validate) == get_value(mt, "lx", x, entry_age, validate)

qx(mt, x, entry_age, validate) == get_value(mt, "qx", x, entry_age, validate)

\* dx = lx(x) - lx(x+1); at max_age dx = lx(x)
dx(mt, x, entry_age, validate) ==
    Try(get_value(mt, "lx", x, entry_age, validate),
        LAMBDA l :
            IF x = max_age(mt) THEN Ok(l)
            ELSE Try(get_value(mt, "lx", x + 1, entry_age, validate),
                     LAMBDA lx_next : Ok(FSub(l, lx_next))))

\* ------------------------------------------------------------------------
\* single_life/survivals.rs
\* ------------------------------------------------------------------------

\* lx(x+t) / lx(x), both looked up with the default validation
tpx_whole(mt, x, t) ==
    Try(lx(mt, x + t, NoEntry, TRUE),
        LAMBDA l_x_t :
            Try(lx(mt, x, NoEntry, TRUE),
                LAMBDA l_x : Ok(FDiv(l_x_t, l_x))))

\* the fraction of the year already lived left out: 1 - t * qx
tpx_frac_t_FromWholeAge(mt, x, t) ==
    Try(qx(mt, AsU32(FFloor(x)), NoEntry, TRUE),
        LAMBDA q :
            IF mt.assumption = CFM THEN Ok(FPow(FSub(One, q), t))
            ELSE Ok(FSub(One, FMul(t, q))))

\* The assumption formula from age x over t, with qx of the whole age
tpx_frac_t(mt, x, t) ==
    Try(qx(mt, AsU32(FFloor(x)), NoEntry, TRUE),
        LAMBDA q :
            IF mt.assumption = UDD
            THEN Ok(FSub(One, FDiv(FMul(t, q), FSub(One, FMul(FFract(x), q)))))
            ELSE IF mt.assumption = CFM
            THEN Ok(FPow(FSub(One, q), t))
            ELSE Ok(FSub(One, FDiv(FMul(t, q), FAdd(One, FMul(FFract(x), q))))))

\* the final fraction of a year left out
tpx_projected_RemainderDropped(mt, x, t) ==
    IF FFract(x) = Zero /\ FFract(t) = Zero
    THEN tpx_whole(mt, AsU32(x), AsU32(t))
    ELSE IF FLe(t, FSub(One, FFract(x))) THEN tpx_frac_t(mt, x, t)
    ELSE Try(tpx_frac_t(mt, x, FSub(One, FFract(x))),
             LAMBDA survival_to_next_age :
                 Try(tpx_whole(mt, AsU32(FFloor(x)) + 1,
                               AsU32(FFloor(FSub(t, FSub(One, FFract(x)))))),
                     LAMBDA part1 : Ok(FMul(survival_to_next_age, part1))))

\* tpx once the table is projected and t stands for t + k
tpx_projected(mt, x, t) ==
    LET x_whole == AsU32(FFloor(x))
        time_to_next_age == FSub(One, FFract(x))
        remaining_time == FSub(t, time_to_next_age)
        remaining_time_whole == AsU32(FFloor(remaining_time))
        remaining_time_frac == FFract(remaining_time)
    IN  IF FFract(x) = Zero /\ FFract(t) = Zero
        THEN tpx_whole(mt, AsU32(x), AsU32(t))
        ELSE IF FLe(t, time_to_next_age) THEN tpx_frac_t(mt, x, t)
        ELSE Try(tpx_frac_t(mt, x, time_to_next_age),
                 LAMBDA survival_to_next_age :
                     Try(tpx_whole(mt, x_whole + 1, remaining_time_whole),
                         LAMBDA part1 :
                             IF remaining_time_frac = Zero
                             THEN Ok(FMul(survival_to_next_age, part1))
                             ELSE Try(tpx_frac_t(mt,
                                                 F(x_whole + 1 + remaining_time_whole),
                                                 remaining_time_frac),
                                      LAMBDA part2 :
                                          Ok(FMul(survival_to_next_age,
                                                  FMul(part1, part2))))))

tpx(mt, x, t, k, entry_age, validate) ==
    Validated(
        IF validate THEN SurvivalFunctionParams_validate_all(mt, x, t, k, entry_age)
        ELSE {},
        Try(get_new_config_with_selected_table(mt, entry_age),
            LAMBDA new_mt : tpx_projected(new_mt, x, FAdd(t, k))))

\* the deferral forgotten: 1 - k|tpx
tqx_Undeferred(mt, x, t, k, entry_age, validate) ==
    Try(tpx(mt, x, t, k, entry_age, validate),
        LAMBDA ktpx : Ok(FSub(One, ktpx)))

\* kpx - k|tpx
tqx(mt, x, t, k, entry_age, validate) ==
    Try(tpx(mt, x, k, Zero, entry_age, validate),
        LAMBDA kpx :
            Try(tpx(mt, x, t, k, entry_age, validate),
                LAMBDA ktpx : Ok(FSub(kpx, ktpx))))

\* ------------------------------------------------------------------------
\* single_life/benefits.rs and single_life/annuities.rs
\* ------------------------------------------------------------------------

Flat == "Flat"

Increasing == "Increasing"

Decreasing == "Decreasing"

InAdvance == "InAdvance"

InArrears == "InArrears"

\* v = 1 / (1 + i)
Discount(i) == FDiv(One, FAdd(One, i))

RECURSIVE FSum(_, _, _)
\* iter.sum() / fold(0.0, +) of T(lo), ..., T(hi) in that order
FSum(T(_), lo, hi) ==
    IF lo > hi THEN Zero ELSE FAdd(FSum(T, lo, hi - 1), T(hi))

\* The benefit vector before any scaling: the k-th 1/m-period (k from 0)
Amount(structure, n, m, k) ==
    IF structure = Flat THEN One
    ELSE IF structure = Increasing THEN F((k \div m) + 1)
    ELSE F(n - (k \div m))

Exn(mt, i, x, n, t, moment, entry_age, validate) ==
    Validated(
        IF validate THEN SingleLifeParams_validate_all(mt, x, n, t, 1, moment, entry_age)
        ELSE {},
        Try(get_new_config_with_selected_table(mt, entry_age),
            LAMBDA new_mt :
                Try(tpx(new_mt, F(x), FAdd(F(t), F(n)), Zero, NoEntry, TRUE),
                    LAMBDA prob :
                        Ok(FMul(FPow(Discount(i), FMul(F(moment), FAdd(F(t), F(n)))),
                                prob)))))

\* The projected table is 1-D, so the tqx/tpx terms cannot panic; a term
\* that fails is replaced by 0.0 (unwrap_or).
benefit_procedure(mt, i, x, n, t, m, moment, entry_age, validate, structure) ==
    Validated(
        IF validate THEN SingleLifeParams_validate_all(mt, x, n, t, m, moment, entry_age)
        ELSE {},
        Try(get_new_config_with_selected_table(mt, entry_age),
            LAMBDA new_mt :
                LET v == Discount(i)
                    discount_factor(k) ==
                        FPow(v, FMul(F(moment), FDiv(FAdd(F(k), One), F(m))))
                    probability(k) ==
                        UnwrapOr(tqx(new_mt, F(x + t), FDiv(One, F(m)),
                                     FDiv(F(k), F(m)), NoEntry, FALSE), Zero)
                    term(k) == FMul(FMul(discount_factor(k), probability(k)),
                                    Amount(structure, n, m, k))
                IN  Try(tpx(new_mt, F(x), F(t), Zero, NoEntry, FALSE),
                        LAMBDA surv :
                            Ok(FMul(FSum(term, 0, n * m - 1),
                                    FMul(FPow(v, F(t)), surv))))))

annuity_procedure(mt, i, x, n, t, m, moment, entry_age, validate, structure, timing) ==
    Validated(
        IF validate THEN SingleLifeParams_validate_all(mt, x, n, t, m, moment, entry_age)
        ELSE {},
        Try(get_new_config_with_selected_table(mt, entry_age),
            LAMBDA new_mt :
                LET v == Discount(i)
                    k_arr(j) == IF timing = InAdvance THEN j ELSE j + 1
                    discount_factor(j) ==
                        FPow(v, FDiv(FMul(F(moment), F(k_arr(j))), F(m)))
                    probability(j) ==
                        UnwrapOr(tpx(new_mt, F(x + t), FDiv(F(k_arr(j)), F(m)),
                                     Zero, NoEntry, FALSE), Zero)
                    amount(j) == FDiv(Amount(structure, n, m, j), F(m))
                    term(j) == FMul(FMul(discount_factor(j), probability(j)), amount(j))
                IN  Try(tpx(new_mt, F(x), F(t), Zero, NoEntry, FALSE),
                        LAMBDA surv :
                            Ok(FMul(FSum(term, 0, n * m - 1),
                                    FMul(FPow(v, F(t)), surv))))))

VARIABLES
    data,             \* the raw MortData frame handed to the constructor
    mt,               \* the MortTableConfig the constructor returned
    call,             \* the last call made on mt
    res,              \* what that call returned
    overflow_checks,  \* the build: u32 arithmetic traps (TRUE) or wraps
    rt                \* a frame a column derivation is applied to directly

vars == <<data, mt, call, res, overflow_checks, rt>>

\* n = max_age - x - t in u32.  The subtraction traps or wraps when
\* x + t > max_age; the wrapped value 2^32 + d is held as 2^31 - 1 + d, which
\* every comparison the code makes with it (n > 150) treats alike.
U32Wrapped(d) == 2147483647 + d

WholeLifeTerm(cfg, x, t) ==
    LET d == max_age(cfg) - x - t
    IN  IF d >= 0 THEN Ok(d)
        ELSE IF overflow_checks THEN Panic
        ELSE Ok(U32Wrapped(d))

Ax1n(cfg, i, x, n, t, m, moment, entry_age, validate) ==
    benefit_procedure(cfg, i, x, n, t, m, moment, entry_age, validate, Flat)

IAx1n(cfg, i, x, n, t, m, moment, entry_age, validate) ==
    benefit_procedure(cfg, i, x, n, t, m, moment, entry_age, validate, Increasing)

DAx1n(cfg, i, x, n, t, m, moment, entry_age, validate) ==
    benefit_procedure(cfg, i, x, n, t, m, moment, entry_age, validate, Decreasing)

Ax(cfg, i, x, t, m, moment, entry_age, validate) ==
    Try(WholeLifeTerm(cfg, x, t),
        LAMBDA n : benefit_procedure(cfg, i, x, n, t, m, moment, entry_age, validate,
                                    Flat))

IAx(cfg, i, x, t, m, moment, entry_age, validate) ==
    Try(WholeLifeTerm(cfg, x, t),
        LAMBDA n : benefit_procedure(cfg, i, x, n, t, m, moment, entry_age, validate,
                                    Increasing))

\* term + pure endowment, both on the table projected here for entry_age
\* and both called without entry_age
Endowment(term, pure_endowment) ==
    Try(term, LAMBDA a : Try(pure_endowment, LAMBDA b : Ok(FAdd(a, b))))

\* A slip: the entry age is dropped, so both parts run on the ultimate table
Axn_EntryAgeDropped(cfg, i, x, n, t, m, moment, entry_age, validate) ==
    Endowment(Ax1n(cfg, i, x, n, t, m, moment, NoEntry, validate),
              Exn(cfg, i, x, n, t, moment, NoEntry, validate))

Axn(cfg, i, x, n, t, m, moment, entry_age, validate) ==
    Try(get_new_config_with_selected_table(cfg, entry_age),
        LAMBDA new_mt :
            Endowment(Ax1n(new_mt, i, x, n, t, m, moment, NoEntry, validate),
                      Exn(new_mt, i, x, n, t, moment, NoEntry, validate)))

IAxn(cfg, i, x, n, t, m, moment, entry_age, validate) ==
    Try(get_new_config_with_selected_table(cfg, entry_age),
        LAMBDA new_mt :
            Endowment(IAx1n(new_mt, i, x, n, t, m, moment, NoEntry, validate),
                      Exn(new_mt, i, x, n, t, moment, NoEntry, validate)))

DAxn(cfg, i, x, n, t, m, moment, entry_age, validate) ==
    Try(get_new_config_with_selected_table(cfg, entry_age),
        LAMBDA new_mt :
            Endowment(DAx1n(new_mt, i, x, n, t, m, moment, NoEntry, validate),
                      Exn(new_mt, i, x, n, t, moment, NoEntry, validate)))

axn(cfg, i, x, n, t, m, moment, entry_age, validate) ==
    annuity_procedure(cfg, i, x, n, t, m, moment, entry_age, validate, Flat, InArrears)

Iaxn(cfg, i, x, n, t, m, moment, entry_age, validate) ==
    annuity_procedure(cfg, i, x, n, t, m, moment, entry_age, validate, Increasing,
                      InArrears)

Daxn(cfg, i, x, n, t, m, moment, entry_age, validate) ==
    annuity_procedure(cfg, i, x, n, t, m, moment, entry_age, validate, Decreasing,
                      InArrears)

aaxn(cfg, i, x, n, t, m, moment, entry_age, validate) ==
    annuity_procedure(cfg, i, x, n, t, m, moment, entry_age, validate, Flat, InAdvance)

Iaaxn(cfg, i, x, n, t, m, moment, entry_age, validate) ==
    annuity_procedure(cfg, i, x, n, t, m, moment, entry_age, validate, Increasing,
                      InAdvance)

Daaxn(cfg, i, x, n, t, m, moment, entry_age, validate) ==
    annuity_procedure(cfg, i, x, n, t, m, moment, entry_age, validate, Decreasing,
                      InAdvance)

ax(cfg, i, x, t, m, moment, entry_age, validate) ==
    Try(WholeLifeTerm(cfg, x, t),
        LAMBDA n : annuity_procedure(cfg, i, x, n, t, m, moment, entry_age, validate,
                                    Flat, InArrears))

Iax(cfg, i, x, t, m, moment, entry_age, validate) ==
    Try(WholeLifeTerm(cfg, x, t),
        LAMBDA n : annuity_procedure(cfg, i, x, n, t, m, moment, entry_age, validate,
                                    Increasing, InArrears))

aax(cfg, i, x, t, m, moment, entry_age, validate) ==
    Try(WholeLifeTerm(cfg, x, t),
        LAMBDA n : annuity_procedure(cfg, i, x, n, t, m, moment, entry_age, validate,
                                    Flat, InAdvance))

Iaax(cfg, i, x, t, m, moment, entry_age, validate) ==
    Try(WholeLifeTerm(cfg, x, t),
        LAMBDA n : annuity_procedure(cfg, i, x, n, t, m, moment, entry_age, validate,
                                    Increasing, InAdvance))

\* ------------------------------------------------------------------------
\* single_life/commutations.rs
\* ------------------------------------------------------------------------

CommutationBad(cfg, x, entry_age, validate) ==
    IF validate THEN SingleLifeParams_validate_all(cfg, x, 0, 0, 1, 1, entry_age)
    ELSE {}

\* Dx = v^x * lx
Dx(cfg, i, x, entry_age, validate) ==
    Validated(CommutationBad(cfg, x, entry_age, validate),
              Try(lx(cfg, x, entry_age, FALSE),
                  LAMBDA l : Ok(FMul(FPow(Discount(i), F(x)), l))))

\* Cx = v^(x+1) * dx
Cx(cfg, i, x, entry_age, validate) ==
    Validated(CommutationBad(cfg, x, entry_age, validate),
              Try(dx(cfg, x, entry_age, FALSE),
                  LAMBDA d : Ok(FMul(FPow(Discount(i), FAdd(F(x), One)), d))))

\* The four sums run on the table projected once, from x to its max_age; a
\* term that fails counts 0.0.
Mx(cfg, i, x, entry_age, validate) ==
    Validated(CommutationBad(cfg, x, entry_age, validate),
              Try(get_new_config_with_selected_table(cfg, entry_age),
                  LAMBDA new_mt :
                      LET term(k) == UnwrapOr(Cx(new_mt, i, k, NoEntry, FALSE), Zero)
                      IN  Ok(FSum(term, x, max_age(new_mt)))))

\* the sum started one age late
Nx_FromNextAge(cfg, i, x, entry_age, validate) ==
    Validated(CommutationBad(cfg, x, entry_age, validate),
              Try(get_new_config_with_selected_table(cfg, entry_age),
                  LAMBDA new_mt :
                      LET term(k) == UnwrapOr(Dx(new_mt, i, k, NoEntry, FALSE), Zero)
                      IN  Ok(FSum(term, x + 1, max_age(new_mt)))))

Nx(cfg, i, x, entry_age, validate) ==
    Validated(CommutationBad(cfg, x, entry_age, validate),
              Try(get_new_config_with_selected_table(cfg, entry_age),
                  LAMBDA new_mt :
                      LET term(k) == UnwrapOr(Dx(new_mt, i, k, NoEntry, FALSE), Zero)
                      IN  Ok(FSum(term, x, max_age(new_mt)))))

Rx(cfg, i, x, entry_age, validate) ==
    Validated(CommutationBad(cfg, x, entry_age, validate),
              Try(get_new_config_with_selected_table(cfg, entry_age),
                  LAMBDA new_mt :
                      LET term(k) == UnwrapOr(Mx(new_mt, i, k, NoEntry, FALSE), Zero)
                      IN  Ok(FSum(term, x, max_age(new_mt)))))

Sx(cfg, i, x, entry_age, validate) ==
    Validated(CommutationBad(cfg, x, entry_age, validate),
              Try(get_new_config_with_selected_table(cfg, entry_age),
                  LAMBDA new_mt :
                      LET term(k) == UnwrapOr(Nx(new_mt, i, k, NoEntry, FALSE), Zero)
                      IN  Ok(FSum(term, x, max_age(new_mt)))))

\* ------------------------------------------------------------------------
\* Inputs
\* ------------------------------------------------------------------------

MinAge == 1

QxVals == {Zero, Frac(3, 4), One}

LxVals == {Zero, One, F(4)}

Radixes == {0, 1, 4}

Pcts == {Zero, Frac(1, 2), One}

\* 1-D MortData of n rows: qx only, lx only, both
Raw1DQx(n) == {Frame1D(MinAge, q, NoCol) : q \in [1..n -> QxVals]}

Raw1DLx(n) == {Frame1D(MinAge, NoCol, l) : l \in [1..n -> LxVals]}

Raw1DBoth(n) ==
    {Frame1D(MinAge, q, l) : q \in [1..n -> {Frac(3, 4), One}], l \in [1..n -> LxVals]}

\* 2-D MortData (long form) over MaxLen ages and durations 0..MaxDurs-1: the
\* ultimate column (the last duration) varies by age, a select column holds
\* one value; every cell present, or exactly one row absent
Raw2DFull(value_column, vals) ==
    {[dur |-> TRUE, value_column |-> value_column,
      rows |-> {<<MinAge + a - 1, d, IF d = MaxDurs - 1 THEN u[a] ELSE f[d]>> :
                   a \in 1..MaxLen, d \in 0..(MaxDurs - 1)}] :
        u \in [1..MaxLen -> vals], f \in [0..(MaxDurs - 2) -> vals]}

Raw2D(value_column, vals) ==
    Raw2DFull(value_column, vals) \cup
    {[df EXCEPT !.rows = @ \ {r}] :
        df \in Raw2DFull(value_column, vals),
        r \in {<<MinAge + a - 1, d, v>> :
                   a \in 1..MaxLen, d \in 0..(MaxDurs - 1), v \in vals}}

RawTables ==
    UNION {Raw1DQx(n) \cup Raw1DLx(n) \cup Raw1DBoth(n) : n \in 1..MaxLen}
    \cup Raw2D("qx", {Frac(3, 4), One}) \cup Raw2D("lx", {One, F(4)})

NoConfig == [k |-> "none", v |-> NaN, e |-> {}]

NoCall == [fn |-> "none"]

NoRoundTrip == [stage |-> "none"]

TypeOK ==
    /\ mt.k \in {"none", "ok", "err"}
    /\ res.k \in {"none", "ok", "err", "panic"}
    /\ overflow_checks \in BOOLEAN

\* ------------------------------------------------------------------------
\* Constructing a table
\* ------------------------------------------------------------------------

InitBuild ==
    /\ data \in RawTables
    /\ mt = NoConfig
    /\ call = NoCall
    /\ res = NoConfig
    /\ overflow_checks \in BOOLEAN
    /\ rt = NoRoundTrip

\* MortTableConfig::builder().data(..).radix(..).pct(..).assumption(..).build()
New ==
    /\ mt.k = "none"
    /\ \E radix \in Radixes, pct \in Pcts, assumption \in AssumptionEnum :
           mt' = MortTableConfigNew(data, radix, pct, assumption)
    /\ UNCHANGED <<data, call, res, overflow_checks, rt>>

NextBuild == New

SpecBuild == InitBuild /\ [][NextBuild]_vars

\* C8 as stated: in every 1-D table the constructor returns, whatever
\* columns were supplied, lx(age+1) = lx(age) * (1 - qx(age)) at every age
\* that has a successor.
Recurrence(df, i) == df.lx[i + 1] = FMul(df.lx[i], FSub(One, df.qx[i]))

C8_RecurrenceEveryShape ==
    (mt.k = "ok" /\ ~mt.v.data.dur) =>
        \A i \in 1..(mt.v.data.n - 1) : Recurrence(mt.v.data, i)

\* C8 amended: the recurrence holds at every age when qx was supplied; when
\* lx was supplied it holds exactly at the ages with lx(age) # 0 (at
\* lx(age) = 0 the derived qx is not a finite number); a table supplied with
\* both columns is held as supplied.
C8_RecurrenceDerived ==
    (mt.k = "ok" /\ ~mt.v.data.dur) =>
        LET df == mt.v.data
        IN  /\ data.lx = NoCol =>
                 \A i \in 1..(df.n - 1) : Recurrence(df, i)
            /\ data.qx = NoCol =>
                 \A i \in 1..(df.n - 1) :
                    /\ Recurrence(df, i) <=> df.lx[i] # Zero
                    /\ IsFinite(df.qx[i]) <=> df.lx[i] # Zero
            /\ (data.qx # NoCol /\ data.lx # NoCol) => df = data

\* a table derived from qx with a death rate strictly between 0 and 1, one
\* derived from lx with a zero, and one supplied with both columns
C8_Witness ==
    /\ mt.k = "ok" /\ ~mt.v.data.dur /\ mt.v.data.n = MaxLen
    /\ data.lx = NoCol
    /\ mt.v.data.qx[1] = Frac(3, 4)
    /\ mt.v.data.lx[2] = FMul(F(mt.v.radix), Frac(1, 4))

\* C9 as stated: qx at the maximum age is 1 in every 1-D table and in the
\* ultimate column of every 2-D table the constructor returns.
C9_LastQxIsOne ==
    mt.k = "ok" =>
        LET df == mt.v.data
        IN  IF df.dur THEN df.qx[df.n][df.maxDur] = One
            ELSE df.qx[df.n] = One

\* C10 as stated: with qx supplied, lx(age+1) = lx(age) * (1 - pct * qx(age)),
\* and a config built with another pct holds another lx column.
C10_PctScalesRates ==
    (mt.k = "ok" /\ ~mt.v.data.dur /\ data.lx = NoCol) =>
        LET df == mt.v.data
            unscaled == MortTableConfigNew(data, mt.v.radix, One, mt.v.assumption)
        IN  /\ \A i \in 1..(df.n - 1) :
                  df.lx[i + 1] =
                      FMul(df.lx[i], FSub(One, FMul(mt.v.pct, df.qx[i])))
            /\ (mt.v.pct # One /\ df.n > 1 /\ df.qx[1] # Zero) =>
                  df.lx # unscaled.v.data.lx

\* ------------------------------------------------------------------------
\* The two 1-D derivations applied one after the other
\* ------------------------------------------------------------------------

InitRoundTrip ==
    /\ data \in UNION {Raw1DQx(n) : n \in 1..MaxLen}
    /\ mt = NoConfig
    /\ call = NoCall
    /\ res = NoConfig
    /\ overflow_checks \in BOOLEAN
    /\ \E radix \in Radixes \ {0} :
           rt = [stage |-> "qx", frame |-> data, radix |-> radix]

DeriveLx ==
    /\ rt.stage = "qx"
    /\ rt' = [rt EXCEPT !.stage = "lx",
                        !.frame = get_lx_from_qx_1D(rt.frame, rt.radix)]
    /\ UNCHANGED <<data, mt, call, res, overflow_checks>>

DeriveQx ==
    /\ rt.stage = "lx"
    /\ rt' = [rt EXCEPT !.stage = "qx again",
                        !.frame = get_qx_from_lx_1D(rt.frame)]
    /\ UNCHANGED <<data, mt, call, res, overflow_checks>>

NextRoundTrip == DeriveLx \/ DeriveQx

SpecRoundTrip == InitRoundTrip /\ [][NextRoundTrip]_vars

\* C7 as stated: qx -> lx -> qx gives back the original qx at every age, the
\* last included.
C7_RoundTripEveryAge ==
    rt.stage = "qx again" =>
        \A i \in 1..rt.frame.n : rt.frame.qx[i] = data.qx[i]

\* C7 amended: qx -> lx -> qx gives back the original qx at every age before
\* the last whose derived lx is not 0; the last age gets qx = 1 whatever the
\* original was, and an earlier age whose derived lx is 0 gets NaN.
C7_RoundTripBeforeLast ==
    rt.stage = "qx again" =>
        /\ rt.frame.n = data.n
        /\ rt.frame.qx[rt.frame.n] = One
        /\ \A i \in 1..(rt.frame.n - 1) :
              IF rt.frame.lx[i] # Zero THEN rt.frame.qx[i] = data.qx[i]
              ELSE IsNaN(rt.frame.qx[i])

C7_Witness ==
    /\ rt.stage = "qx again"
    /\ rt.frame.n = MaxLen
    /\ data.qx[1] = Frac(3, 4)
    /\ rt.frame.qx[1] = Frac(3, 4)
    /\ rt.frame.lx[2] # Zero

\* ------------------------------------------------------------------------
\* Queries on a constructed table
\* ------------------------------------------------------------------------

IRates == {Zero, F(3)}

Xs == (MinAge - 1)..(MinAge + MaxLen)

Ns == 0..(MaxLen - 1)

Ts == {0, 1}

Ms == {1, 2}

Moments == {1, 2}

Entries == {NoEntry, MinAge - 1, MinAge + 1}

\* the tables the queries run on: 1-D tables given as qx, and select tables
\* given as qx with every cell present, one rate per duration
QueryTables ==
    {Frame1D(MinAge, q, NoCol) : q \in [1..MaxLen -> QxVals \ {Zero}]}
    \cup {df \in Raw2DFull("qx", QxVals) :
              \A r1, r2 \in df.rows : r1[2] = r2[2] => r1[3] = r2[3]}

InitQuery ==
    /\ data \in QueryTables
    /\ \E assumption \in AssumptionEnum :
           mt = MortTableConfigNew(data, 4, One, assumption)
    /\ call = NoCall
    /\ res = NoConfig
    /\ overflow_checks \in BOOLEAN
    /\ rt = NoRoundTrip

\* a call of a term function f(mt, i, x, n, t, m, moment, entry_age, validate)
TermCalls(fn) ==
    {[fn |-> fn, i |-> i, x |-> x, n |-> n, t |-> t, m |-> m, moment |-> moment,
      entry_age |-> entry_age, validate |-> validate] :
        i \in IRates, x \in Xs, n \in Ns, t \in Ts, m \in Ms, moment \in Moments,
        entry_age \in Entries, validate \in BOOLEAN}

\* a call of a whole-life function, which takes no n; a wrapped term without
\* validation (a summation of 2^32 - d terms) is left out
WholeLifeCalls(fn) ==
    {c \in TermCalls(fn) :
        /\ c.n = 0
        /\ c.validate \/ overflow_checks \/ c.x + c.t <= max_age(mt.v)}

\* a table is held and no call is under way
Idle == mt.k = "ok" /\ call.fn = "none"

\* the call c is made on mt and returns r
Query(c, r) ==
    /\ call' = c
    /\ res' = r
    /\ UNCHANGED <<data, mt, overflow_checks, rt>>

\* the caller is done with the result
Return ==
    /\ call.fn # "none"
    /\ call' = NoCall
    /\ res' = NoConfig
    /\ UNCHANGED <<data, mt, overflow_checks, rt>>

CallExn ==
    /\ Idle
    /\ \E c \in TermCalls("Exn") :
           c.m = 1 /\ Query(c, Exn(mt.v, c.i, c.x, c.n, c.t, c.moment, c.entry_age, c.validate))

CallAx1n ==
    /\ Idle
    /\ \E c \in TermCalls("Ax1n") :
           Query(c, Ax1n(mt.v, c.i, c.x, c.n, c.t, c.m, c.moment, c.entry_age, c.validate))

CallIAx1n ==
    /\ Idle
    /\ \E c \in TermCalls("IAx1n") :
           Query(c, IAx1n(mt.v, c.i, c.x, c.n, c.t, c.m, c.moment, c.entry_age, c.validate))

CallDAx1n ==
    /\ Idle
    /\ \E c \in TermCalls("DAx1n") :
           Query(c, DAx1n(mt.v, c.i, c.x, c.n, c.t, c.m, c.moment, c.entry_age, c.validate))

CallAxn ==
    /\ Idle
    /\ \E c \in TermCalls("Axn") :
           Query(c, Axn(mt.v, c.i, c.x, c.n, c.t, c.m, c.moment, c.entry_age, c.validate))

CallIAxn ==
    /\ Idle
    /\ \E c \in TermCalls("IAxn") :
           Query(c, IAxn(mt.v, c.i, c.x, c.n, c.t, c.m, c.moment, c.entry_age, c.validate))

CallDAxn ==
    /\ Idle
    /\ \E c \in TermCalls("DAxn") :
           Query(c, DAxn(mt.v, c.i, c.x, c.n, c.t, c.m, c.moment, c.entry_age, c.validate))

CallAx ==
    /\ Idle
    /\ \E c \in WholeLifeCalls("Ax") :
           Query(c, Ax(mt.v, c.i, c.x, c.t, c.m, c.moment, c.entry_age, c.validate))

CallIAx ==
    /\ Idle
    /\ \E c \in WholeLifeCalls("IAx") :
           Query(c, IAx(mt.v, c.i, c.x, c.t, c.m, c.moment, c.entry_age, c.validate))

Callaxn ==
    /\ Idle
    /\ \E c \in TermCalls("axn") :
           Query(c, axn(mt.v, c.i, c.x, c.n, c.t, c.m, c.moment, c.entry_age, c.validate))

CallIaxn ==
    /\ Idle
    /\ \E c \in TermCalls("Iaxn") :
           Query(c, Iaxn(mt.v, c.i, c.x, c.n, c.t, c.m, c.moment, c.entry_age, c.validate))

CallDaxn ==
    /\ Idle
    /\ \E c \in TermCalls("Daxn") :
           Query(c, Daxn(mt.v, c.i, c.x, c.n, c.t, c.m, c.moment, c.entry_age, c.validate))

Callaaxn ==
    /\ Idle
    /\ \E c \in TermCalls("aaxn") :
           Query(c, aaxn(mt.v, c.i, c.x, c.n, c.t, c.m, c.moment, c.entry_age, c.validate))

CallIaaxn ==
    /\ Idle
    /\ \E c \in TermCalls("Iaaxn") :
           Query(c, Iaaxn(mt.v, c.i, c.x, c.n, c.t, c.m, c.moment, c.entry_age, c.validate))

CallDaaxn ==
    /\ Idle
    /\ \E c \in TermCalls("Daaxn") :
           Query(c, Daaxn(mt.v, c.i, c.x, c.n, c.t, c.m, c.moment, c.entry_age, c.validate))

Callax ==
    /\ Idle
    /\ \E c \in WholeLifeCalls("ax") :
           Query(c, ax(mt.v, c.i, c.x, c.t, c.m, c.moment, c.entry_age, c.validate))

CallIax ==
    /\ Idle
    /\ \E c \in WholeLifeCalls("Iax") :
           Query(c, Iax(mt.v, c.i, c.x, c.t, c.m, c.moment, c.entry_age, c.validate))

Callaax ==
    /\ Idle
    /\ \E c \in WholeLifeCalls("aax") :
           Query(c, aax(mt.v, c.i, c.x, c.t, c.m, c.moment, c.entry_age, c.validate))

CallIaax ==
    /\ Idle
    /\ \E c \in WholeLifeCalls("Iaax") :
           Query(c, Iaax(mt.v, c.i, c.x, c.t, c.m, c.moment, c.entry_age, c.validate))

\* ages and durations in half years
Half(n) == FNorm(n, 2)

SurvivalXs == {Half(n) : n \in (2 * MinAge - 1)..(2 * (MinAge + MaxLen))}

\* t and k are f64 with an upper bound only: negative values are inputs too
SurvivalTs == {Half(n) : n \in (0 - 2)..MaxLen}

\* a call of tpx or tqx (mt, x, t, k, entry_age, validate)
SurvivalCalls(fn) ==
    {[fn |-> fn, x |-> x, t |-> t, k |-> k, entry_age |-> entry_age,
      validate |-> validate] :
        x \in SurvivalXs, t \in SurvivalTs, k \in SurvivalTs,
        entry_age \in Entries, validate \in BOOLEAN}

Calltpx ==
    /\ Idle
    /\ \E c \in SurvivalCalls("tpx") :
           Query(c, tpx(mt.v, c.x, c.t, c.k, c.entry_age, c.validate))

Calltqx ==
    /\ Idle
    /\ \E c \in SurvivalCalls("tqx") :
           Query(c, tqx(mt.v, c.x, c.t, c.k, c.entry_age, c.validate))

\* The functions that do no u32 subtraction run alike in both builds, so one
\* build stands for both.
InitChecked == InitQuery /\ overflow_checks

NextSurvival == Calltpx \/ Calltqx \/ Return

SpecSurvival == InitChecked /\ [][NextSurvival]_vars

NextTerm == CallExn \/ CallAx1n \/ CallIAx1n \/ CallDAx1n \/ Return

SpecTerm == InitChecked /\ [][NextTerm]_vars

NextEndowment == CallAxn \/ CallIAxn \/ CallDAxn \/ Return

SpecEndowment == InitChecked /\ [][NextEndowment]_vars

NextWholeLife == CallAx \/ CallIAx \/ Return

SpecWholeLife == InitQuery /\ [][NextWholeLife]_vars

NextTermAnnuity ==
    \/ Callaxn \/ CallIaxn \/ CallDaxn
    \/ Callaaxn \/ CallIaaxn \/ CallDaaxn
    \/ Return

SpecTermAnnuity == InitChecked /\ [][NextTermAnnuity]_vars

NextWholeLifeAnnuity == Callax \/ CallIax \/ Callaax \/ CallIaax \/ Return

SpecWholeLifeAnnuity == InitQuery /\ [][NextWholeLifeAnnuity]_vars

\* The parameter constraints of section 6: x within the table, x + t + n not
\* beyond its last age, entry_age absent or between the first age and x.
ValidParams(c) ==
    /\ min_age(mt.v) <= c.x /\ c.x <= max_age(mt.v)
    /\ c.x + c.t + c.n <= max_age(mt.v)
    /\ c.entry_age # NoEntry => (min_age(mt.v) <= c.entry_age /\ c.entry_age <= c.x)

\* r is the sum of the two parts, and fails exactly when one of them fails
SumOfParts(r, term, pure_endowment) ==
    IF IsOk(term) /\ IsOk(pure_endowment)
    THEN IsOk(r) /\ r.v = FAdd(term.v, pure_endowment.v)
    ELSE ~IsOk(r)

\* C2: for valid parameters Axn returns Ax1n + Exn, IAxn returns IAx1n + Exn
\* and DAxn returns DAx1n + Exn, the three called with the same arguments,
\* entry_age included (a NaN on one side is a NaN on the other, and the
\* endowment fails exactly when one of its parts fails).
C2_EndowmentIsTermPlusPure ==
    /\ (call.fn = "Axn" /\ ValidParams(call)) =>
           SumOfParts(res,
                      Ax1n(mt.v, call.i, call.x, call.n, call.t, call.m, call.moment,
                           call.entry_age, call.validate),
                      Exn(mt.v, call.i, call.x, call.n, call.t, call.moment,
                          call.entry_age, call.validate))
    /\ (call.fn = "IAxn" /\ ValidParams(call)) =>
           SumOfParts(res,
                      IAx1n(mt.v, call.i, call.x, call.n, call.t, call.m, call.moment,
                            call.entry_age, call.validate),
                      Exn(mt.v, call.i, call.x, call.n, call.t, call.moment,
                          call.entry_age, call.validate))
    /\ (call.fn = "DAxn" /\ ValidParams(call)) =>
           SumOfParts(res,
                      DAx1n(mt.v, call.i, call.x, call.n, call.t, call.m, call.moment,
                            call.entry_age, call.validate),
                      Exn(mt.v, call.i, call.x, call.n, call.t, call.moment,
                          call.entry_age, call.validate))

\* an endowment on a select table, inside the select period, whose select
\* rate differs from the ultimate rate
C2_Witness ==
    /\ call.fn = "Axn" /\ ValidParams(call) /\ call.validate
    /\ call.entry_age # NoEntry /\ call.n >= 1 /\ call.m = 2 /\ call.moment = 2
    /\ mt.v.data.dur
    /\ mt.v.data.qx[1][0] # mt.v.data.qx[1][max_duration(mt.v)]
    /\ IsOk(res) /\ IsFinite(res.v) /\ FGt(res.v, Zero) /\ FLt(res.v, One)

\* C1: in every call of an insurance or annuity function made with
\* validation, parameters that break a
\* constraint (x outside the table, x + t + n beyond its last age, entry_age
\* above x or below the first age) give an error, and parameters that break
\* none are not turned down.
C1_ValidationRejectsInvalid ==
    (call.fn # "none" /\ call.validate) =>
        IF ValidParams(call) THEN ~IsErr(res) ELSE IsErr(res)

\* The constraints of tpx and tqx: x within the table, x + t + k not beyond
\* its last age, entry_age absent or between the first age and x.
SurvivalValid(c) ==
    /\ FLe(F(min_age(mt.v)), c.x) /\ FLe(c.x, F(max_age(mt.v)))
    /\ FLe(FAdd(FAdd(c.x, c.t), c.k), F(max_age(mt.v)))
    /\ c.entry_age # NoEntry =>
           (min_age(mt.v) <= c.entry_age /\ FLe(F(c.entry_age), c.x))

\* r is kpx - ktpx, so that r + ktpx gives kpx back when the numbers are
\* finite, and fails exactly when one of the two fails
DifferenceOf(r, kpx, ktpx) ==
    IF IsOk(kpx) /\ IsOk(ktpx)
    THEN /\ IsOk(r)
         /\ r.v = FSub(kpx.v, ktpx.v)
         /\ IsFinite(r.v) => FAdd(r.v, ktpx.v) = kpx.v
    ELSE ~IsOk(r)

\* C3: for valid (x, t, k) and every entry_age, tqx(x, t, k) is
\* tpx(x, t = k, k = 0) - tpx(x, t, k), so tqx + tpx is the probability of
\* surviving k years from x.
C3_DeferredDeathIsDifference ==
    (call.fn = "tqx" /\ SurvivalValid(call)) =>
        DifferenceOf(res,
                     tpx(mt.v, call.x, call.k, Zero, call.entry_age, call.validate),
                     tpx(mt.v, call.x, call.t, call.k, call.entry_age, call.validate))

\* a death probability strictly between 0 and 1, over a fraction of a year
\* deferred by a fraction of a year, on a select table
C3_Witness ==
    /\ call.fn = "tqx" /\ SurvivalValid(call)
    /\ FFract(call.t) # Zero /\ FFract(call.k) # Zero
    /\ call.entry_age # NoEntry /\ mt.v.data.dur
    /\ IsOk(res) /\ IsFinite(res.v) /\ FGt(res.v, Zero) /\ FLt(res.v, One)

\* a exceeds b by exactly one
ExceedsByOne(a, b) == IsOk(a) /\ IsOk(b) /\ FSub(a.v, b.v) = One

\* C4: at every valid integer age, with t = 0, m = 1 and moment = 1,
\* aax(x) - ax(x) = 1.
C4_DueExceedsImmediateByOne ==
    (/\ call.fn = "aax" /\ ValidParams(call)
     /\ call.t = 0 /\ call.m = 1 /\ call.moment = 1) =>
        ExceedsByOne(res, ax(mt.v, call.i, call.x, call.t, call.m, call.moment,
                             call.entry_age, call.validate))

\* second is at least the square of first
AtLeastSquare(second, first) ==
    IsOk(second) /\ IsOk(first) /\ FGe(second.v, FMul(first.v, first.v))

\* a valid call at moment = 2 with i >= 0
SecondMomentCall ==
    ValidParams(call) /\ call.moment = 2 /\ FGe(call.i, Zero)

\* C5: for valid inputs with i >= 0, the result at moment = 2 is at least the
\* square of the result at moment = 1 (here for the whole-life annuities).
C5_SecondMomentAtLeastSquare ==
    /\ (call.fn = "ax" /\ SecondMomentCall) =>
           AtLeastSquare(res, ax(mt.v, call.i, call.x, call.t, call.m, 1,
                                 call.entry_age, call.validate))
    /\ (call.fn = "Iax" /\ SecondMomentCall) =>
           AtLeastSquare(res, Iax(mt.v, call.i, call.x, call.t, call.m, 1,
                                  call.entry_age, call.validate))
    /\ (call.fn = "aax" /\ SecondMomentCall) =>
           AtLeastSquare(res, aax(mt.v, call.i, call.x, call.t, call.m, 1,
                                  call.entry_age, call.validate))
    /\ (call.fn = "Iaax" /\ SecondMomentCall) =>
           AtLeastSquare(res, Iaax(mt.v, call.i, call.x, call.t, call.m, 1,
                                   call.entry_age, call.validate))

\* Exn or Ax1n called at a valid age with n = 0 and t = 0
EmptyTermCall(fn) ==
    call.fn = fn /\ ValidParams(call) /\ call.n = 0 /\ call.t = 0

\* C6 as stated: at every valid age, with t = 0, Exn(x, n = 0) returns 1 and
\* Ax1n(x, n = 0) returns 0.
C6_EmptyTermEveryAge ==
    /\ EmptyTermCall("Exn") => res = Ok(One)
    /\ EmptyTermCall("Ax1n") => res = Ok(Zero)

\* r is expected where l, the lx of the age, is a positive finite number, and
\* NaN where it is not
AtLiveAge(r, l, expected) ==
    /\ IsOk(l)
    /\ IF IsFinite(l.v) /\ FGt(l.v, Zero) THEN r = Ok(expected) ELSE r = Ok(NaN)

\* What the empty term gives age by age: 1 from Exn and 0 from Ax1n where
\* lx(x) is a positive finite number, NaN from both where it is not.
EmptyTermAtLiveAge ==
    /\ EmptyTermCall("Exn") =>
           AtLiveAge(res, lx(mt.v, call.x, call.entry_age, TRUE), One)
    /\ EmptyTermCall("Ax1n") =>
           AtLiveAge(res, lx(mt.v, call.x, call.entry_age, TRUE), Zero)

\* a populated qx cell lies in [0, 1]
QxInRange(q) == IsNull(q) \/ (FGe(q, Zero) /\ FLe(q, One))

\* a populated lx cell is not negative
LxInRange(l) == IsNull(l) \/ FGe(l, Zero)

\* C11: every populated cell of the table a constructed config holds has
\* 0 <= qx <= 1 and lx >= 0.
C11_CellsInRange ==
    mt.k = "ok" =>
        LET df == mt.v.data
        IN  IF df.dur
            THEN \A i \in 1..df.n, d \in Durs(df) :
                     QxInRange(df.qx[i][d]) /\ LxInRange(df.lx[i][d])
            ELSE \A i \in 1..df.n : QxInRange(df.qx[i]) /\ LxInRange(df.lx[i])

\* ------------------------------------------------------------------------
\* Lookups on select tables
\* ------------------------------------------------------------------------

\* select tables as MortData holds them: given as qx or as lx, every cell
\* present or one row absent
LookupTables == Raw2D("qx", {Frac(3, 4), One}) \cup Raw2D("lx", {One, F(4)})

LookupEntries == Entries \cup {MinAge, MinAge + MaxLen - 1}

InitLookup ==
    /\ data \in LookupTables
    /\ \E assumption \in AssumptionEnum :
           mt = MortTableConfigNew(data, 4, One, assumption)
    /\ call = NoCall
    /\ res = NoConfig
    /\ overflow_checks = TRUE
    /\ rt = NoRoundTrip

\* a call of mt.lx(), mt.qx() or mt.dx() (x, entry_age, validate)
LookupCalls(fn) ==
    {[fn |-> fn, x |-> x, entry_age |-> entry_age, validate |-> validate] :
        x \in Xs, entry_age \in LookupEntries, validate \in BOOLEAN}

Calllx ==
    /\ Idle
    /\ \E c \in LookupCalls("lx") : Query(c, lx(mt.v, c.x, c.entry_age, c.validate))

Callqx ==
    /\ Idle
    /\ \E c \in LookupCalls("qx") : Query(c, qx(mt.v, c.x, c.entry_age, c.validate))

Calldx ==
    /\ Idle
    /\ \E c \in LookupCalls("dx") : Query(c, dx(mt.v, c.x, c.entry_age, c.validate))

\* get_new_config_with_selected_table(mt, Some(entry_age)): the result holds
\* the config with the projected table
Select ==
    /\ Idle
    /\ \E entry_age \in LookupEntries \ {NoEntry} :
           Query([fn |-> "get_new_config_with_selected_table",
                  entry_age |-> entry_age],
                 get_new_config_with_selected_table(mt.v, entry_age))

NextLookup == Calllx \/ Callqx \/ Calldx \/ Select \/ Return

SpecLookup == InitLookup /\ [][NextLookup]_vars

\* The parameter constraints of a lookup: x within the table, entry_age
\* absent or between the first age and x.
ValidLookup(c) ==
    /\ min_age(mt.v) <= c.x /\ c.x <= max_age(mt.v)
    /\ c.entry_age # NoEntry => (min_age(mt.v) <= c.entry_age /\ c.entry_age <= c.x)

\* a valid call on a select table at an age that has left the select period
PastSelectPeriod(c) ==
    /\ mt.v.data.dur /\ ValidLookup(c)
    /\ c.entry_age # NoEntry /\ c.x - c.entry_age >= max_duration(mt.v)

\* C12: on a select table, a call at age x with entry_age = e and
\* x - e >= max_duration returns what the same call returns with
\* entry_age = None (here for lx, qx and dx).
C12_UltimateAfterSelectPeriod ==
    /\ (call.fn = "lx" /\ PastSelectPeriod(call)) =>
           res = lx(mt.v, call.x, NoEntry, call.validate)
    /\ (call.fn = "qx" /\ PastSelectPeriod(call)) =>
           res = qx(mt.v, call.x, NoEntry, call.validate)
    /\ (call.fn = "dx" /\ PastSelectPeriod(call)) =>
           res = dx(mt.v, call.x, NoEntry, call.validate)

\* every cell the projection for entry_age reads holds a qx and an lx
DiagonalPopulated(df, entry_age) ==
    \A age \in Ages(df) :
        age >= entry_age => ~SelectedCellMissing(df, age, entry_age)

\* What holds of the code past the select period: the call with entry_age
\* returns the value of the call without it where the projection finds all
\* its cells, and aborts where it does not.
UltimateAfterSelectPeriodOrAbort ==
    (call.fn \in {"lx", "qx", "dx"} /\ PastSelectPeriod(call)) =>
        IF DiagonalPopulated(mt.v.data, call.entry_age)
        THEN C12_UltimateAfterSelectPeriod
        ELSE IsPanic(res)

\* The cell the claim names for age a of the projection for entry age e.
DiagonalDuration(df, a, e) ==
    IF a - e <= df.maxDur THEN a - e ELSE df.maxDur

DiagonalCellPresent(df, a, e) ==
    /\ DiagonalDuration(df, a, e) \in Durs(df)
    /\ ~IsNull(df.qx[a - df.minAge + 1][DiagonalDuration(df, a, e)])
    /\ ~IsNull(df.lx[a - df.minAge + 1][DiagonalDuration(df, a, e)])

ProjectionOf(parent, e, projected) ==
    /\ ~projected.dur
    /\ Ages(projected) = Ages(parent)
    /\ \A a \in Ages(parent) :
           LET i == a - parent.minAge + 1
           IN  IF a < e
               THEN projected.qx[i] = Zero /\ projected.lx[i] = Zero
               ELSE /\ projected.qx[i] = parent.qx[i][DiagonalDuration(parent, a, e)]
                    /\ projected.lx[i] = parent.lx[i][DiagonalDuration(parent, a, e)]

WithinYearOfAge(c) ==
    /\ SurvivalValid(c)
    /\ c.k = Zero
    /\ FFract(c.x) # Zero \/ FFract(c.t) # Zero
    /\ FLe(c.t, FSub(One, FFract(c.x)))

\* r is 1 - t*q/(1 - s*q) under UDD and 1 - t*q/(1 + s*q) under HPB, and
\* fails when q does
FractionalAgeFormula(r, q, s, t, assumption) ==
    IF IsOk(q)
    THEN /\ IsOk(r)
         /\ assumption = UDD =>
                r.v = FSub(One, FDiv(FMul(t, q.v), FSub(One, FMul(s, q.v))))
         /\ assumption = HPB =>
                r.v = FSub(One, FDiv(FMul(t, q.v), FAdd(One, FMul(s, q.v))))
    ELSE ~IsOk(r)

HyperbolicFormula(r, q, t) ==
    IF IsOk(q)
    THEN /\ IsOk(r)
         /\ r.v = FDiv(FSub(One, q.v), FSub(One, FMul(FSub(One, t), q.v)))
    ELSE ~IsOk(r)

\* C15: under HPB, for a valid integer age x and a fraction 0 < t < 1,
\* tpx(x, t) = (1 - qx)/(1 - (1 - t)*qx).
C15_HyperbolicSurvival ==
    (call.fn = "tpx" /\ WithinYearOfAge(call) /\ mt.v.assumption = HPB /\
     FFract(call.x) = Zero /\ FGt(call.t, Zero) /\ FLt(call.t, One))
    => HyperbolicFormula(res,
                         qx(mt.v, AsU32(call.x), call.entry_age, TRUE),
                         call.t)

\* ------------------------------------------------------------------------
\* Commutation calls
\* ------------------------------------------------------------------------

\* a call of Cx, Dx, Mx, Nx, Rx or Sx (mt, i, x, entry_age, validate)
CommutationCalls(fn) ==
    {[fn |-> fn, i |-> i, x |-> x, entry_age |-> entry_age, validate |-> validate] :
        i \in IRates, x \in Xs, entry_age \in LookupEntries, validate \in BOOLEAN}

CallCx ==
    /\ Idle
    /\ \E c \in CommutationCalls("Cx") :
           Query(c, Cx(mt.v, c.i, c.x, c.entry_age, c.validate))

CallDx ==
    /\ Idle
    /\ \E c \in CommutationCalls("Dx") :
           Query(c, Dx(mt.v, c.i, c.x, c.entry_age, c.validate))

CallMx ==
    /\ Idle
    /\ \E c \in CommutationCalls("Mx") :
           Query(c, Mx(mt.v, c.i, c.x, c.entry_age, c.validate))

CallNx ==
    /\ Idle
    /\ \E c \in CommutationCalls("Nx") :
           Query(c, Nx(mt.v, c.i, c.x, c.entry_age, c.validate))

CallRx ==
    /\ Idle
    /\ \E c \in CommutationCalls("Rx") :
           Query(c, Rx(mt.v, c.i, c.x, c.entry_age, c.validate))

CallSx ==
    /\ Idle
    /\ \E c \in CommutationCalls("Sx") :
           Query(c, Sx(mt.v, c.i, c.x, c.entry_age, c.validate))

NextCommutation == CallCx \/ CallDx \/ CallMx \/ CallNx \/ CallRx \/ CallSx \/ Return

SpecCommutation == InitChecked /\ [][NextCommutation]_vars

\* r is the sum of the terms T(lo), ..., T(hi), and fails when a term does
LadderSum(r, T(_), lo, hi) ==
    IF \A k \in lo..hi : IsOk(T(k))
    THEN IsOk(r) /\ r.v = FSum(LAMBDA k : T(k).v, lo, hi)
    ELSE ~IsOk(r)

\* C16: for a valid age x, every interest rate and entry_age, Nx(x) is the
\* sum of Dx(k), Mx(x) the sum of Cx(k), Sx(x) the sum of Nx(k) and Rx(x) the
\* sum of Mx(k) for k from x to max_age, each term with the same entry_age.
C16_LadderIsSumOfLevelBelow ==
    /\ (call.fn = "Nx" /\ ValidLookup(call)) =>
           LadderSum(res, LAMBDA k : Dx(mt.v, call.i, k, call.entry_age, TRUE),
                     call.x, max_age(mt.v))
    /\ (call.fn = "Mx" /\ ValidLookup(call)) =>
           LadderSum(res, LAMBDA k : Cx(mt.v, call.i, k, call.entry_age, TRUE),
                     call.x, max_age(mt.v))
    /\ (call.fn = "Sx" /\ ValidLookup(call)) =>
           LadderSum(res, LAMBDA k : Nx(mt.v, call.i, k, call.entry_age, TRUE),
                     call.x, max_age(mt.v))
    /\ (call.fn = "Rx" /\ ValidLookup(call)) =>
           LadderSum(res, LAMBDA k : Mx(mt.v, call.i, k, call.entry_age, TRUE),
                     call.x, max_age(mt.v))

\* Sx over several ages of a select table with an entry age, at a positive
\* interest rate, with a finite positive value
C16_Witness ==
    /\ call.fn = "Sx" /\ ValidLookup(call)
    /\ mt.v.data.dur /\ call.entry_age # NoEntry
    /\ call.x < max_age(mt.v)
    /\ call.i # Zero
    /\ IsOk(res) /\ IsFinite(res.v) /\ FGt(res.v, Zero)

\* ------------------------------------------------------------------------
\* Parameter validation on its own
\* ------------------------------------------------------------------------

\* SingleLifeParams with m and moment from 0
ValidateCalls ==
    {[fn |-> "validate_all", x |-> x, n |-> n, t |-> t, m |-> m, moment |-> moment,
      entry_age |-> entry_age] :
        x \in Xs, n \in Ns, t \in Ts, m \in 0..1, moment \in 0..1,
        entry_age \in Entries}

\* Result<(), garde::Report>: the unit value is held as 0.0
CallValidateAll ==
    /\ Idle
    /\ \E c \in ValidateCalls :
           Query(c, Validated(SingleLifeParams_validate_all(mt.v, c.x, c.n, c.t, c.m,
                                                            c.moment, c.entry_age),
                              Ok(Zero)))

NextValidate == CallValidateAll \/ Return

SpecValidate == InitChecked /\ [][NextValidate]_vars

\* every constraint of SingleLifeParams the call c violates
ViolatedByCall(c) ==
    (IF c.m = 0 THEN {"m.range"} ELSE {}) \cup
    (IF c.moment = 0 THEN {"moment.range"} ELSE {}) \cup
    (IF c.x < min_age(mt.v) \/ c.x > max_age(mt.v) THEN {"x.bounds"} ELSE {}) \cup
    (IF c.x + c.t + c.n > max_age(mt.v) THEN {"term"} ELSE {}) \cup
    (IF c.entry_age # NoEntry /\ c.entry_age > c.x THEN {"entry_age.gt_x"} ELSE {}) \cup
    (IF c.entry_age # NoEntry /\ c.entry_age < min_age(mt.v)
     THEN {"entry_age.lt_min"} ELSE {})

\* C17: a call that violates several constraints at once returns an error
\* that reports every violated constraint, not only the first one detected.
C17_ReportsEveryViolation ==
    (call.fn = "validate_all" /\ ViolatedByCall(call) # {}) =>
        (res.k = "err" /\ res.e = ViolatedByCall(call))

\* With m >= 1 and moment >= 1 the report is complete: the cross-field checks
\* are collected together.
CrossFieldViolationsAllReported ==
    (call.fn = "validate_all" /\ call.m >= 1 /\ call.moment >= 1 /\
     ViolatedByCall(call) # {}) =>
        (res.k = "err" /\ res.e = ViolatedByCall(call))

\* some 1/m-period death probability of the insurance call c fails
FailedTerm(c) ==
    \E k \in 0..(c.n * c.m - 1) :
        ~IsOk(tqx(mt.v, F(c.x + c.t), FDiv(One, F(c.m)), FDiv(F(k), F(c.m)),
                  c.entry_age, FALSE))

\* C18: when the evaluation of a term of the sum fails, the whole call
\* returns a failure: no successful result stands for a sum with a failed
\* term in it.
C18_FailedTermFailsCall ==
    (call.fn \in {"Ax1n", "IAx1n", "DAx1n"} /\ FailedTerm(call)) => ~IsOk(res)

\* the number of lives at the whole age x of the table the call runs on
LivesAt(c) == lx(mt.v, AsU32(c.x), c.entry_age, FALSE)

\* C19: a survival call at a whole age x with lx(x) = 0 returns an error
\* instead of a numeric result.
C19_NoSurvivorsIsAnError ==
    (call.fn = "tpx" /\ SurvivalValid(call) /\
     FFract(call.x) = Zero /\ FFract(FAdd(call.t, call.k)) = Zero /\
     LivesAt(call) = Ok(Zero))
    => ~IsOk(res)

\* the diagonal from the entry age of the lookup c reaches a cell the table
\* does not hold
DiagonalUnpopulated(c) ==
    /\ mt.v.data.dur
    /\ c.entry_age # NoEntry
    /\ \E a \in Ages(mt.v.data) :
           a >= c.entry_age /\ ~DiagonalCellPresent(mt.v.data, a, c.entry_age)

\* C20: a query with an entry_age on a select table whose diagonal reaches an
\* unpopulated cell returns a typed error: it neither aborts the program nor
\* returns a value.
C20_UnpopulatedCellIsTypedError ==
    (call.fn \in {"lx", "qx", "dx"} /\ ValidLookup(call) /\ DiagonalUnpopulated(call))
    => IsErr(res)

\* ------------------------------------------------------------------------
\* Callers sharing one MortTableConfig
\* ------------------------------------------------------------------------
\* Every query borrows the config (&MortTableConfig).  A get_value call runs
\* in three steps: validate the parameters, project the table into a view of
\* its own, read the view.  Steps of different callers interleave freely.
\* Here call and res hold one entry for each caller.

Callers == {"a", "b"}

SharedTables ==
    {df \in QueryTables : df.dur /\ \A r \in df.rows : r[3] # Zero}

\* let mut new_mt = mt.clone(); new_mt.data.dataframe = selected_df:
\* the view is a clone, the borrowed parent is left as it is
ParentAfterProjection_WrittenBack(parent, view) == view

ParentAfterProjection(parent, view) == parent

InitShared ==
    /\ data \in SharedTables
    /\ \E assumption \in AssumptionEnum :
           mt = MortTableConfigNew(data, 4, One, assumption)
    /\ call = [p \in Callers |-> NoCall]
    /\ res = [p \in Callers |-> NoConfig]
    /\ overflow_checks = TRUE
    /\ rt = NoRoundTrip

SharedCalls ==
    {[fn |-> "get_value", column_name |-> column_name, x |-> x,
      entry_age |-> entry_age, validate |-> validate, pc |-> "validate"] :
        column_name \in {"lx", "qx"}, x \in MinAge..(MinAge + MaxLen - 1),
        entry_age \in {NoEntry, MinAge, MinAge + 1}, validate \in BOOLEAN}

\* caller p makes the call c
Begin(p) ==
    /\ mt.k = "ok" /\ call[p].fn = "none"
    /\ \E c \in SharedCalls : call' = [call EXCEPT ![p] = c]
    /\ UNCHANGED <<data, mt, res, overflow_checks, rt>>

\* if validate { params.validate_all()? }
ValidateStep(p) ==
    /\ call[p].fn = "get_value" /\ call[p].pc = "validate"
    /\ LET bad == IF call[p].validate
                  THEN GetValueFunctionValidation_validate_all(
                           mt.v, call[p].x, call[p].entry_age)
                  ELSE {}
       IN  IF bad # {}
           THEN /\ res' = [res EXCEPT ![p] = Err(bad)]
                /\ call' = [call EXCEPT ![p].pc = "done"]
           ELSE /\ call' = [call EXCEPT ![p].pc = "project"]
                /\ res' = res
    /\ UNCHANGED <<data, mt, overflow_checks, rt>>

\* let mt = get_new_config_with_selected_table(mt, entry_age)?
ProjectStep(p) ==
    /\ call[p].fn = "get_value" /\ call[p].pc = "project"
    /\ LET r == get_new_config_with_selected_table(mt.v, call[p].entry_age)
       IN  IF IsOk(r)
           THEN /\ call' = [call EXCEPT ![p] = [call[p] EXCEPT !.pc = "read"]
                                                @@ [view |-> r.v]]
                /\ res' = res
                /\ mt' = [mt EXCEPT !.v = ParentAfterProjection(mt.v, r.v)]
           ELSE /\ call' = [call EXCEPT ![p].pc = "done"]
                /\ res' = [res EXCEPT ![p] = r]
                /\ mt' = mt
    /\ UNCHANGED <<data, overflow_checks, rt>>

\* filter the view for age x and take the column's value
ReadStep(p) ==
    /\ call[p].fn = "get_value" /\ call[p].pc = "read"
    /\ res' = [res EXCEPT ![p] = get_value(call[p].view, call[p].column_name,
                                            call[p].x, NoEntry, FALSE)]
    /\ call' = [call EXCEPT ![p].pc = "done"]
    /\ UNCHANGED <<data, mt, overflow_checks, rt>>

\* the caller is done with the result
ReturnStep(p) ==
    /\ call[p].fn = "get_value" /\ call[p].pc = "done"
    /\ call' = [call EXCEPT ![p] = NoCall]
    /\ res' = [res EXCEPT ![p] = NoConfig]
    /\ UNCHANGED <<data, mt, overflow_checks, rt>>

NextShared ==
    \E p \in Callers :
        Begin(p) \/ ValidateStep(p) \/ ProjectStep(p) \/ ReadStep(p) \/ ReturnStep(p)

SpecShared == InitShared /\ [][NextShared]_vars

\* the config as the constructor returned it
ConfigAsBuilt == MortTableConfigNew(data, 4, One, mt.v.assumption)

\* C21: whatever the interleaving of queries with different entry ages on
\* one config, each query returns what it returns when run alone, and the
\* config's table, radix, pct and assumption stay as they were built.
C21_QueriesDoNotInterfere ==
    /\ mt = ConfigAsBuilt
    /\ \A p \in Callers :
           (call[p].fn = "get_value" /\ call[p].pc = "done") =>
               res[p] = get_value(ConfigAsBuilt.v, call[p].column_name, call[p].x,
                                  call[p].entry_age, call[p].validate)

\* one caller has finished a select lookup while the other still holds its
\* ultimate view of the same age, and the two values differ
C21_Witness ==
    /\ call["a"].fn = "get_value" /\ call["a"].pc = "done"
    /\ call["b"].fn = "get_value" /\ call["b"].pc = "read"
    /\ call["a"].entry_age = call["a"].x
    /\ call["b"].entry_age = NoEntry
    /\ call["b"].x = call["a"].x /\ call["b"].column_name = call["a"].column_name
    /\ IsOk(res["a"])
    /\ res["a"] # get_value(call["b"].view, call["b"].column_name, call["b"].x,
                            NoEntry, FALSE)

\* the amount of the k-th 1/m-period: 1, (k div m + 1)/m, (n - k div m)/m
ScaledAmount(structure, n, m, k) ==
    IF structure = Flat THEN One
    ELSE IF structure = Increasing THEN FDiv(F((k \div m) + 1), F(m))
    ELSE FDiv(F(n - (k \div m)), F(m))

\* the insurance value of the call c when its periods carry these amounts
InsuranceWithScaledAmounts(c, structure) ==
    Try(tpx(mt.v, F(c.x), F(c.t), Zero, c.entry_age, FALSE),
        LAMBDA surv :
            Ok(FMul(FSum(LAMBDA k :
                             FMul(FMul(FPow(Discount(c.i),
                                            FMul(F(c.moment),
                                                 FDiv(FAdd(F(k), One), F(c.m)))),
                                       UnwrapOr(tqx(mt.v, F(c.x + c.t), FDiv(One, F(c.m)),
                                                    FDiv(F(k), F(c.m)), c.entry_age,
                                                    FALSE),
                                                Zero)),
                                  ScaledAmount(structure, c.n, c.m, k)),
                         0, c.n * c.m - 1),
                    FMul(FPow(Discount(c.i), F(c.t)), surv))))

\* C22: the amount of the k-th 1/m-period (k = 0..mn-1) of the insurance
\* kernel is 1 for Flat, (k div m + 1)/m for Increasing and (n - k div m)/m
\* for Decreasing: the increasing and decreasing amounts are scaled by 1/m.
C22_AmountsScaledByPeriod ==
    /\ (call.fn = "Ax1n" /\ ValidParams(call)) =>
           res = InsuranceWithScaledAmounts(call, Flat)
    /\ (call.fn = "IAx1n" /\ ValidParams(call)) =>
           res = InsuranceWithScaledAmounts(call, Increasing)
    /\ (call.fn = "DAx1n" /\ ValidParams(call)) =>
           res = InsuranceWithScaledAmounts(call, Decreasing)

\* With m = 1 the scaling changes nothing and the amounts are the kernel's.
AmountsOfYearlyInsurance ==
    (call.fn \in {"Ax1n", "IAx1n", "DAx1n"} /\ call.m = 1) => C22_AmountsScaledByPeriod

\* the entry age of the call c is above its age or below the table's first age
EntryAgeInvalid(c) ==
    /\ c.entry_age # NoEntry
    /\ c.entry_age > c.x \/ c.entry_age < min_age(mt.v)

\* C23: Axn, IAxn and DAxn called with validation enabled and an entry_age
\* above x or below min_age return the validation error of the entry age, as
\* Ax1n and Exn do for the same arguments.
C23_EndowmentValidatesEntryAge ==
    (call.fn \in {"Axn", "IAxn", "DAxn"} /\ call.validate /\ EntryAgeInvalid(call))
    => (IsErr(res) /\ res.e \cap {"entry_age.gt_x", "entry_age.lt_min"} # {})

\* Ax1n and Exn themselves do report it.
TermValidatesEntryAge ==
    (call.fn \in {"Ax1n", "IAx1n", "DAx1n", "Exn"} /\ call.validate /\
     EntryAgeInvalid(call))
    => (IsErr(res) /\ res.e \cap {"entry_age.gt_x", "entry_age.lt_min"} # {})

\* C24: a whole-life call with x + t > max_age returns an error: the term
\* n = max_age - x - t neither wraps around nor aborts the program.
C24_WholeLifeTermIsChecked ==
    (call.fn \in {"Ax", "IAx"} /\ call.x + call.t > max_age(mt.v)) => IsErr(res)

\* In a build whose u32 arithmetic wraps, the validated call does return an
\* error: the wrapped term is above the range of n.
WrappedTermIsOutOfRange ==
    (call.fn \in {"Ax", "IAx"} /\ call.x + call.t > max_age(mt.v) /\
     ~overflow_checks /\ call.validate)
    => (IsErr(res) /\ "n.range" \in res.e)

\* r is the product of the two values, and fails when one of them fails
ProductOf(r, a, b) ==
    IF IsOk(a) /\ IsOk(b) THEN IsOk(r) /\ r.v = FMul(a.v, b.v) ELSE ~IsOk(r)

\* lives are left at the age the result l is the lx of
SomeAlive(l) == IsOk(l) /\ IsFinite(l.v) /\ FGt(l.v, Zero)

\* a term insurance deferred by t > 0 to an age where lives are left
DeferredInsurance(c) ==
    /\ c.fn = "Ax1n" /\ ValidParams(c) /\ c.t > 0
    /\ SomeAlive(lx(mt.v, c.x + c.t, c.entry_age, FALSE))

\* C25: the term insurance deferred by t > 0 at moment j is the pure
\* endowment over the deferral at the same moment, v^(j*t) * tpx(x, t), times
\* the undeferred insurance at age x + t.
C25_DeferredIsEndowmentTimesUndeferred ==
    DeferredInsurance(call) =>
        ProductOf(res,
                  Exn(mt.v, call.i, call.x, call.t, 0, call.moment, call.entry_age,
                      call.validate),
                  Ax1n(mt.v, call.i, call.x + call.t, call.n, 0, call.m, call.moment,
                       call.entry_age, call.validate))

\* At the first moment the deferral factor v^t * tpx(x, t) is that pure
\* endowment.
DeferredFirstMoment ==
    (DeferredInsurance(call) /\ call.moment = 1) =>
        C25_DeferredIsEndowmentTimesUndeferred

\* the assumption's formula for surviving t from age n + s, q the qx of n
DirectFormula(q, s, t, assumption) ==
    IF assumption = UDD THEN FSub(One, FDiv(FMul(t, q), FSub(One, FMul(s, q))))
    ELSE IF assumption = CFM THEN FPow(FSub(One, q), t)
    ELSE FSub(One, FDiv(FMul(t, q), FAdd(One, FMul(s, q))))

\* whole years and final fraction left of t + k after the year of age of x
WholeYearsAfter(c) ==
    AsU32(FFloor(FSub(FAdd(c.t, c.k), FSub(One, FFract(c.x)))))

RemainderAfter(c) == FFract(FSub(FAdd(c.t, c.k), FSub(One, FFract(c.x))))

\* the product of the three segments of the call c, each value looked up in
\* the table with the call's entry_age
ThreeSegments(c) ==
    Try(qx(mt.v, AsU32(FFloor(c.x)), c.entry_age, FALSE),
        LAMBDA q1 :
    Try(lx(mt.v, AsU32(FFloor(c.x)) + 1 + WholeYearsAfter(c), c.entry_age, FALSE),
        LAMBDA l_end :
    Try(lx(mt.v, AsU32(FFloor(c.x)) + 1, c.entry_age, FALSE),
        LAMBDA l_start :
            IF RemainderAfter(c) = Zero
            THEN Ok(FMul(DirectFormula(q1, FFract(c.x), FSub(One, FFract(c.x)),
                                       mt.v.assumption),
                         FDiv(l_end, l_start)))
            ELSE Try(qx(mt.v, AsU32(FFloor(c.x)) + 1 + WholeYearsAfter(c),
                        c.entry_age, FALSE),
                     LAMBDA q3 :
                         Ok(FMul(DirectFormula(q1, FFract(c.x),
                                               FSub(One, FFract(c.x)),
                                               mt.v.assumption),
                                 FMul(FDiv(l_end, l_start),
                                      DirectFormula(q3, Zero, RemainderAfter(c),
                                                    mt.v.assumption))))))))

\* r is the expected value, and fails when the expected value cannot be had
SameOutcome(r, expected) ==
    IF IsOk(expected) THEN r = expected ELSE ~IsOk(r)

\* a fractional input that passes the parameter validation, with t + k
\* beyond the year of age of x
BeyondYearOfAge(c) ==
    /\ c.fn = "tpx"
    /\ c.validate => SurvivalValid(c)
    /\ FFract(c.x) # Zero \/ FFract(FAdd(c.t, c.k)) # Zero
    /\ FGt(FAdd(c.t, c.k), FSub(One, FFract(c.x)))

\* C26: for x = n + s and t > 1 - s, tpx(x, t) is the product of the direct
\* formula from n + s over 1 - s, the ratio lx(n + 1 + w)/lx(n + 1) over the
\* w remaining whole years, and the direct formula at the integer age
\* n + 1 + w over the final fraction, which counts 1 when there is none.
C26_SurvivalIsProductOfSegments ==
    BeyondYearOfAge(call) => SameOutcome(res, ThreeSegments(call))

\* the three segments at once: from the middle of a year of age, over a whole
\* year and a final fraction, survived with a probability between 0 and 1
C26_Witness ==
    /\ BeyondYearOfAge(call)
    /\ FFract(call.x) # Zero
    /\ WholeYearsAfter(call) >= 1
    /\ RemainderAfter(call) # Zero
    /\ IsOk(res) /\ FGt(res.v, Zero) /\ FLt(res.v, One)

\* the duration the lives of duration d are in one year later
NextDuration(df, d) == IF d + 1 <= df.maxDur THEN d + 1 ELSE df.maxDur

\* the cell (row i, duration d) and its diagonal successor are populated
DiagonalPairPopulated(df, i, d) ==
    /\ ~IsNull(df.qx[i][d]) /\ ~IsNull(df.lx[i][d])
    /\ ~IsNull(df.lx[i + 1][NextDuration(df, d)])

DiagonalRecurrence(df, i, d) ==
    FMul(df.lx[i][d], FSub(One, df.qx[i][d])) = df.lx[i + 1][NextDuration(df, d)]

\* C27: in the 2-D table the constructor builds from qx or from lx, every
\* cell with a populated diagonal successor satisfies
\* lx_d(age) * (1 - qx_d(age)) = lx_min(d+1, max_duration)(age + 1).
C27_DiagonalRecurrence ==
    (mt.k = "ok" /\ mt.v.data.dur) =>
        \A i \in 1..(mt.v.data.n - 1), d \in Durs(mt.v.data) :
            DiagonalPairPopulated(mt.v.data, i, d) =>
                DiagonalRecurrence(mt.v.data, i, d)

\* The recurrence holds wherever the cell is a pair of finite numbers: the
\* divisions of the derivation were then defined.
DiagonalRecurrenceOfFiniteCells ==
    (mt.k = "ok" /\ mt.v.data.dur) =>
        \A i \in 1..(mt.v.data.n - 1), d \in Durs(mt.v.data) :
            (DiagonalPairPopulated(mt.v.data, i, d) /\
             IsFinite(mt.v.data.qx[i][d]) /\ IsFinite(mt.v.data.lx[i][d]))
            => DiagonalRecurrence(mt.v.data, i, d)

\* C28: survival is multiplicative under every assumption: for valid
\* x, s, t (whole or fractional), tpx(x, s + t) = tpx(x, s) * tpx(x + s, t).
\* The call's t stands for s and its k for t.
C28_SurvivalIsMultiplicative ==
    (call.fn = "tpx" /\ SurvivalValid(call) /\
     FGe(call.t, Zero) /\ FGe(call.k, Zero)) =>
        ProductOf(res,
                  tpx(mt.v, call.x, call.t, Zero, call.entry_age, call.validate),
                  tpx(mt.v, FAdd(call.x, call.t), call.k, Zero, call.entry_age,
                      call.validate))

\* the survival and both parts of the product are numbers: nowhere were 0
\* lives divided by 0 lives
AllAreNumbers(r, c) ==
    /\ UnwrapOr(r, NaN) # NaN
    /\ UnwrapOr(tpx(mt.v, c.x, c.t, Zero, c.entry_age, c.validate), NaN) # NaN
    /\ UnwrapOr(tpx(mt.v, FAdd(c.x, c.t), c.k, Zero, c.entry_age, c.validate), NaN)
           # NaN

\* It is under UDD and CFM, where all three are numbers.
MultiplicativeUnlessHyperbolic ==
    (call.fn = "tpx" /\ SurvivalValid(call) /\ mt.v.assumption # HPB /\
     AllAreNumbers(res, call))
    => C28_SurvivalIsMultiplicative

\* Under HPB it is between whole ages.
MultiplicativeBetweenWholeAges ==
    (call.fn = "tpx" /\ SurvivalValid(call) /\
     FFract(call.x) = Zero /\ FFract(call.t) = Zero /\ FFract(call.k) = Zero /\
     AllAreNumbers(res, call))
    => C28_SurvivalIsMultiplicative

\* Where all three are numbers, what is left is the HPB formula.
MultiplicativeWhereDefined ==
    (call.fn = "tpx" /\ AllAreNumbers(res, call)) => C28_SurvivalIsMultiplicative

\* r is a / b, and fails when one of the two fails
QuotientOf(r, a, b) ==
    IF IsOk(a) /\ IsOk(b) THEN IsOk(r) /\ r.v = FDiv(a.v, b.v) ELSE ~IsOk(r)

\* whole-life insurance at a valid whole age, undeferred, yearly, first moment
PlainWholeLife(c) ==
    /\ c.fn = "Ax" /\ ValidParams(c)
    /\ c.t = 0 /\ c.m = 1 /\ c.moment = 1

\* C29: for every valid whole age x, interest rate and entry_age, with t = 0,
\* m = 1 and moment = 1, Ax(x) = Mx(x)/Dx(x): the summation kernel and the
\* commutation ladder agree, the death at the last age counted by both.
C29_KernelAgreesWithCommutations ==
    PlainWholeLife(call) =>
        QuotientOf(res,
                   Mx(mt.v, call.i, call.x, call.entry_age, call.validate),
                   Dx(mt.v, call.i, call.x, call.entry_age, call.validate))

\* The kernel stops one year short: with the deaths of the last age taken
\* out of Mx the two agree wherever lives are left at x.
KernelLeavesOutLastAge ==
    (PlainWholeLife(call) /\
     SomeAlive(lx(mt.v, call.x, call.entry_age, FALSE)))
    => QuotientOf(res,
                  Try(Mx(mt.v, call.i, call.x, call.entry_age, call.validate),
                      LAMBDA m_x :
                          Try(Cx(mt.v, call.i, max_age(mt.v), call.entry_age, FALSE),
                              LAMBDA c_last : Ok(FSub(m_x, c_last)))),
                  Dx(mt.v, call.i, call.x, call.entry_age, call.validate))

\* the parameters of the call c pass the validation of tpx
PassesValidation(c) ==
    SurvivalFunctionParams_validate_all(mt.v, c.x, c.t, c.k, c.entry_age) = {}

\* C30: every (x, t, k, entry_age) that passes the parameter validation of
\* tpx, a negative t or k included, yields a survival probability within
\* [0, 1].
C30_SurvivalIsProbability ==
    (call.fn = "tpx" /\ call.validate /\ PassesValidation(call)) =>
        (IsOk(res) /\ FGe(res.v, Zero) /\ FLe(res.v, One))

\* With t and k not negative the value is within [0, 1] wherever it is a
\* number.
SurvivalIsProbabilityForward ==
    (call.fn = "tpx" /\ call.validate /\ PassesValidation(call) /\
     FGe(call.t, Zero) /\ FGe(call.k, Zero) /\ IsOk(res) /\ res.v # NaN)
    => (FGe(res.v, Zero) /\ FLe(res.v, One))

====
